---- MODULE Spec2Model ----
(***************************************************************************)
(* A model of the codesage refactoring agent:                              *)
(*   - utils.extract_code_from_markdown and RefactoringAgent.refactor_code *)
(*     over character sequences            (SpecRefactor, SpecExtract),    *)
(*   - RefactoringAgent._call_gemini_api, the retry loop (SpecCall),       *)
(*   - the per-file body of RefactoringAgent.run with its two remote calls *)
(*     made through the retry loop, under fairness       (SpecFile),       *)
(*   - the Flask application of web_app.py: the start handler, the worker  *)
(*     threads running run_refactoring_task / RefactoringAgent.run (Spec), *)
(*     one run of it taken statement by statement        (SpecRun),       *)
(*     and two runs one after the other                  (SpecAgain),     *)
(*     the same with the worker threads scheduled fairly (SpecGate),      *)
(*   - main() of main.py, and the program started either as one web run    *)
(*     or as one run of main()                           (SpecOnce),       *)
(*   - the status handler reading processing_state field by field while a  *)
(*     worker writes                                     (SpecStatus).     *)
(* A Python str is a sequence of one-character strings.                    *)
(***************************************************************************)
EXTENDS Integers, Sequences, FiniteSets, TLC

VARIABLES
    \* ---- refactor_code (agent.py 96-123) ----
    rpc,                 \* position in refactor_code
    code_content,        \* the argument code_content
    refactored_content,  \* what _call_gemini_api returned
    extracted_code,      \* what extract_code_from_markdown returned
    refactor_result,     \* the value refactor_code returns
    remote_calls,        \* number of _call_gemini_api invocations refactor_code made
    source_file,         \* the bytes of the file run() reads (Nil: refactor_code called directly)
    output_file,         \* the bytes of the file run() wrote (Nil: no file)
    \* ---- extract_code_from_markdown (utils.py 59-79) ----
    response_text,       \* the text given to the function (its argument markdown_text)
    blocks,              \* <<A, B>> when the text was built of two fenced blocks, else Nil
    extractions,         \* what the function returned, for the text and then for its own result
    \* ---- _call_gemini_api (agent.py 27-65) ----
    ipc,                 \* position in _call_gemini_api
    max_retries,         \* the argument max_retries
    attempt,             \* the loop variable of for attempt in range(max_retries)
    calls,               \* number of generate_content calls issued
    sleeps,              \* the durations passed to time.sleep, in order
    outcomes,            \* the outcome of each attempt, in order
    call_result,         \* the returned string
    \* ---- web_app.py ----
    processing_state,    \* the global dict processing_state
    threads,             \* the worker threads started by start_refactoring
    nstarted,            \* number of worker threads started so far
    starter,             \* the start_refactoring request being handled
    nfiles,              \* number of accepted files under the source directory
    form,                \* the form data the start requests submit, and what the
                         \* source path names: a directory with files, or without
    \* ---- get_status (web_app.py 243-259) ----
    hpc,                 \* number of field groups the handler has read (0: no query)
    response,            \* the dict the handler is building
    instants,            \* the values processing_state held since the query began
    \* ---- main (main.py 13-157) ----
    cli                  \* the arguments and locals of main(), and its position

extractVars  == <<response_text, blocks, extractions>>
fileVars     == <<source_file, output_file>>
refactorVars == <<rpc, code_content, refactored_content, extracted_code,
                  refactor_result, remote_calls, fileVars>>
callVars     == <<ipc, max_retries, attempt, calls, sleeps, outcomes, call_result>>
webVars      == <<processing_state, threads, nstarted, starter, nfiles, form>>
statusVars   == <<hpc, response, instants>>
cliVars      == <<cli>>
vars         == <<extractVars, refactorVars, callVars, webVars, statusVars, cliVars>>

None == "None"

\* a local that has not been assigned yet: a one-element sequence, which no
\* text is (texts are sequences of characters)
Unassigned == <<"unassigned">>

\* the value None of what otherwise holds one thing x, held as <<x>>
Nil == <<>>

(***************************************************************************)
(* Strings                                                                 *)
(***************************************************************************)

\* "Error:", the marker of agent.py 46/63/65 tested by utils.py 63 and agent.py 118
Marker == <<"E", "r", "r", "o", "r", ":">>

\* The backquote character (a TLA+ string cannot hold one; "~" stands for it).
BQ == "~"

\* The fence marker: three backquotes
Fence == <<BQ, BQ, BQ>>

\* str.isspace for the characters of the model (the whitespace class of re and of str.strip)
IsSpace(c) == c \in {" ", "\n", "\t"}

\* the word class of re for the characters of the model
IsWord(c) == c \in {"a", "b", "d", "e", "n", "o", "q", "r", "t", "u", "w",
                    "A", "E", "R", "T", "_", "0", "1", "2", "3", "4", "5"}

\* s.startswith(p)
StartsWith(s, p) == Len(s) >= Len(p) /\ SubSeq(s, 1, Len(p)) = p

\* p in s
Contains(s, p) ==
    \E i \in 1..(Len(s) - Len(p) + 1) : SubSeq(s, i, i + Len(p) - 1) = p

\* str.lower, character by character
LowerChar(c) ==
    CASE c = "A" -> "a" [] c = "E" -> "e" [] c = "R" -> "r" [] c = "T" -> "t"
      [] OTHER -> c

Lower(s) == [i \in 1..Len(s) |-> LowerChar(s[i])]

\* str.strip(): leading and trailing whitespace removed
Strip(s) ==
    LET keep == {i \in 1..Len(s) : ~IsSpace(s[i])}
    IN  IF keep = {} THEN <<>>
        ELSE LET lo == CHOOSE i \in keep : \A j \in keep : i <= j
                 hi == CHOOSE i \in keep : \A j \in keep : i >= j
             IN  SubSeq(s, lo, hi)

Max(S) == CHOOSE x \in S : \A y \in S : y <= x
Min(S) == CHOOSE x \in S : \A y \in S : x <= y

(***************************************************************************)
(* utils.extract_code_from_markdown                                        *)
(***************************************************************************)

IsFenceAt(t, i) ==
    i >= 1 /\ i + 2 <= Len(t) /\ SubSeq(t, i, i + 2) = Fence

\* length of the longest run of characters satisfying the class, from position p
WordRun(t, p) ==
    Max({k \in 0..(Len(t) - p + 1) : \A j \in p..(p + k - 1) : IsWord(t[j])})

SpaceRun(t, p) ==
    Max({m \in 0..(Len(t) - p + 1) : \A j \in p..(p + m - 1) : IsSpace(t[j])})

\* the positions at or after g of a newline followed by a fence
Closings1(t, g) == {e \in g..Len(t) : t[e] = "\n" /\ IsFenceAt(t, e + 1)}

\* The first pattern of utils.py 67 (fence, optional word tag, whitespace run,
\* newline, lazy group, newline, fence; DOTALL) anchored at the fence at i: the
\* ways <<k, m>> the greedy tag (k word characters) and the greedy whitespace run
\* (m characters) can be followed by a newline, the group and a closing newline
\* and fence
Ways1(t, i) ==
    {km \in (0..WordRun(t, i + 3)) \X (0..Len(t)) :
        /\ km[2] <= SpaceRun(t, i + 3 + km[1])
        /\ i + 3 + km[1] + km[2] <= Len(t)
        /\ t[i + 3 + km[1] + km[2]] = "\n"
        /\ Closings1(t, i + 3 + km[1] + km[2] + 1) # {}}

\* group(1) of the match at i: backtracking tries the longest tag first, then the
\* longest whitespace run, and the lazy group stops at the first closing
Group1(t, i) ==
    LET k == Max({km[1] : km \in Ways1(t, i)})
        m == Max({km[2] : km \in {x \in Ways1(t, i) : x[1] = k}})
        g == i + 3 + k + m + 1
    IN  SubSeq(t, g, Min(Closings1(t, g)) - 1)

Starts1(t) == {i \in 1..Len(t) : IsFenceAt(t, i) /\ Ways1(t, i) # {}}

\* The second pattern of utils.py 73 (fence, optional word tag, lazy group, fence;
\* DOTALL) anchored at the fence at i
Closings2(t, g) == {f \in g..Len(t) : IsFenceAt(t, f)}

Ways2(t, i) == {k \in 0..WordRun(t, i + 3) : Closings2(t, i + 3 + k) # {}}

Group2(t, i) ==
    LET k == Max(Ways2(t, i))
        g == i + 3 + k
    IN  SubSeq(t, g, Min(Closings2(t, g)) - 1)

Starts2(t) == {i \in 1..Len(t) : IsFenceAt(t, i) /\ Ways2(t, i) # {}}

extract_code_from_markdown(markdown_text) ==
    IF markdown_text = <<>> \/ StartsWith(markdown_text, Marker) THEN <<>>
    ELSE IF Starts1(markdown_text) # {}
         THEN Strip(Group1(markdown_text, Min(Starts1(markdown_text))))
    ELSE IF Starts2(markdown_text) # {}
         THEN Strip(Group2(markdown_text, Min(Starts2(markdown_text))))
    ELSE Strip(markdown_text)

(***************************************************************************)
(* The strings _call_gemini_api can return                                 *)
(***************************************************************************)

\* agent.py 46: "Error: Response blocked by safety filters." (text after the
\* marker abridged)
SafetyBlockedMsg == Marker \o <<" ", "b">>

\* the string of agent.py 65, were it without the marker
UnexpectedPlain == <<"u">>

\* agent.py 65: "Error: Unexpected error occurred." (abridged)
UnexpectedMsg == Marker \o <<" ", "u">>

Digit(n) == CASE n = 0 -> "0" [] n = 1 -> "1" [] n = 2 -> "2" [] n = 3 -> "3"
              [] n = 4 -> "4" [] OTHER -> "5"

\* agent.py 63: f"Error: Could not get a response from the API after
\* {max_retries} attempts. Last error: {str(e)}" (fixed text abridged)
ExhaustedMsg(n, e) == Marker \o <<" ", Digit(n), " ">> \o e

\* str(e) of the errors generate_content raises in the model: "RATE limit",
\* "quota", "down", "" and the IndexError of candidates[0] on an empty list
ErrRate   == <<"R", "A", "T", "E">>
ErrQuota  == <<"q", "u", "o", "t", "a">>
ErrDown   == <<"d", "o", "w", "n">>
ErrIndex  == <<"r", "a", "n", "g", "e">>
ErrTexts  == {ErrRate, ErrQuota, ErrDown, ErrIndex, <<>>}

(***************************************************************************)
(* Bounded inputs                                                          *)
(***************************************************************************)

\* a response text is built of at most MaxPieces pieces
MaxPieces == 4

\* a file's content has at most MaxContentLen characters
MaxContentLen == 4

Pieces == {Fence, <<"\n">>, <<" ">>, <<"a">>, <<":">>, Marker}

RECURSIVE Flatten(_)
Flatten(ps) == IF ps = <<>> THEN <<>> ELSE Head(ps) \o Flatten(Tail(ps))

\* response.text of a successful generate_content call
Texts == {Flatten(ps) : ps \in UNION {[1..n -> Pieces] : n \in 0..MaxPieces}}

\* bound on the argument max_retries of _call_gemini_api
MaxRetries == 4

\* a byte that is not valid UTF-8 ("#" stands for it)
InvalidByte == "#"

\* the bytes of a source file: up to MaxContentLen letters, then nothing, a
\* CR LF line ending or an invalid byte; or a blank
SourceFiles ==
    {body \o tail : body \in {[i \in 1..n |-> "a"] : n \in 0..MaxContentLen},
                    tail \in {<<>>, <<"\r", "\n">>, <<InvalidByte>>}}
        \cup {<<" ">>}

\* file contents: n characters of code, or whitespace only
Contents == {[i \in 1..n |-> "a"] : n \in 0..MaxContentLen} \cup {<<" ">>, <<"\n", " ">>}

(***************************************************************************)
(* Idle values: a specification leaves the variables of the other parts at *)
(* these                                                                   *)
(***************************************************************************)

RefactorIdle ==
    /\ rpc = "idle" /\ code_content = <<>> /\ refactored_content = Unassigned
    /\ extracted_code = Unassigned /\ refactor_result = Unassigned /\ remote_calls = 0
    /\ source_file = Nil /\ output_file = Nil

ExtractIdle ==
    /\ response_text = <<>> /\ blocks = Nil /\ extractions = <<>>

CallIdle ==
    /\ ipc = "idle" /\ max_retries = 0 /\ attempt = 0 /\ calls = 0
    /\ sleeps = <<>> /\ outcomes = <<>> /\ call_result = Unassigned

WebIdle ==
    /\ processing_state = None /\ threads = <<>> /\ nstarted = 0
    /\ starter = None /\ nfiles = 0 /\ form = None

StatusIdle ==
    /\ hpc = 0 /\ response = None /\ instants = {}

\* main() is not running
NotStarted ==
    [pc |-> "idle", git |-> FALSE, skip_analysis |-> FALSE,
     skip_refactoring |-> FALSE, temp_dir |-> FALSE, ret |-> "none"]

CliIdle == cli = NotStarted

(***************************************************************************)
(* RefactoringAgent._call_gemini_api (agent.py 27-65)                      *)
(***************************************************************************)

\* response.text of a successful attempt, in the retry-loop specification
CallTexts == {<<>>, <<"a">>, Fence \o <<"a">> \o Fence, Marker \o <<"a">>}

\* agent.py 53: "quota" in str(e).lower() or "rate" in str(e).lower()
IsRateLimit(e) ==
    \/ Contains(Lower(e), <<"q", "u", "o", "t", "a">>)
    \/ Contains(Lower(e), <<"r", "a", "t", "e">>)

\* agent.py 55: the fixed cooldown
RateLimitSleep == 60

\* the wait of agent.py 58, were it exponential as its comment says
BackoffSleepExponential(a) == 2 ^ (a + 1)

\* agent.py 58: wait_time = (attempt + 1) * 2
BackoffSleep(a) == (a + 1) * 2

NextAttemptStuck(a) == a

\* agent.py 35: the next value of the loop variable
NextAttempt(a) == a + 1

\* the test of agent.py 45, were it off by one
IsLastAttemptOffByOne(a, n) == a = n

\* agent.py 45: attempt == max_retries - 1
IsLastAttempt(a, n) == a = n - 1

\* the successful attempt, were the loop to go on after it
AttemptSuccessContinue(text) ==
    /\ ipc = "loop" /\ attempt < max_retries
    /\ calls' = calls + 1
    /\ outcomes' = Append(outcomes, [kind |-> "success", text |-> text])
    /\ call_result' = text
    /\ attempt' = NextAttempt(attempt)
    /\ UNCHANGED <<max_retries, ipc, sleeps>>
    /\ UNCHANGED <<extractVars, refactorVars, webVars, statusVars, cliVars>>

\* agent.py 37-49: generate_content answers, not blocked; response.text is returned
AttemptSuccess(text) ==
    /\ ipc = "loop" /\ attempt < max_retries
    /\ calls' = calls + 1
    /\ outcomes' = Append(outcomes, [kind |-> "success", text |-> text])
    /\ call_result' = text
    /\ ipc' = "returned"
    /\ UNCHANGED <<max_retries, attempt, sleeps>>
    /\ UNCHANGED <<extractVars, refactorVars, webVars, statusVars, cliVars>>

\* agent.py 43-47: finish_reason is SAFETY; the last attempt returns the
\* safety string, any other attempt continues the loop
AttemptSafety ==
    /\ ipc = "loop" /\ attempt < max_retries
    /\ calls' = calls + 1
    /\ outcomes' = Append(outcomes, [kind |-> "safety", text |-> <<>>])
    /\ IF IsLastAttempt(attempt, max_retries)
       THEN /\ call_result' = SafetyBlockedMsg
            /\ ipc' = "returned"
            /\ UNCHANGED attempt
       ELSE /\ attempt' = NextAttempt(attempt)
            /\ UNCHANGED <<call_result, ipc>>
    /\ UNCHANGED <<max_retries, sleeps>>
    /\ UNCHANGED <<extractVars, refactorVars, webVars, statusVars, cliVars>>

HandleReraise(e, kind) ==
    /\ calls' = calls + 1
    /\ outcomes' = Append(outcomes, [kind |-> kind, text |-> e])
    /\ IF IsRateLimit(e)
       THEN /\ sleeps' = Append(sleeps, RateLimitSleep)
            /\ attempt' = NextAttempt(attempt)
            /\ UNCHANGED <<call_result, ipc>>
       ELSE IF attempt < max_retries - 1
       THEN /\ sleeps' = Append(sleeps, BackoffSleep(attempt))
            /\ attempt' = NextAttempt(attempt)
            /\ UNCHANGED <<call_result, ipc>>
       ELSE /\ ipc' = "raised"
            /\ UNCHANGED <<sleeps, attempt, call_result>>
    /\ UNCHANGED max_retries
    /\ UNCHANGED <<extractVars, refactorVars, webVars, statusVars, cliVars>>

\* the except clause, were the last attempt tested before the rate limit
HandleRateLast(e, kind) ==
    /\ calls' = calls + 1
    /\ outcomes' = Append(outcomes, [kind |-> kind, text |-> e])
    /\ IF attempt < max_retries - 1
       THEN /\ sleeps' = Append(sleeps, IF IsRateLimit(e) THEN RateLimitSleep
                                        ELSE BackoffSleep(attempt))
            /\ attempt' = NextAttempt(attempt)
            /\ UNCHANGED <<call_result, ipc>>
       ELSE /\ call_result' = ExhaustedMsg(max_retries, e)
            /\ ipc' = "returned"
            /\ UNCHANGED <<sleeps, attempt>>
    /\ UNCHANGED max_retries
    /\ UNCHANGED <<extractVars, refactorVars, webVars, statusVars, cliVars>>

\* the except clause, were a rate-limited attempt repeated without being counted
HandleRateFree(e, kind) ==
    /\ calls' = calls + 1
    /\ outcomes' = Append(outcomes, [kind |-> kind, text |-> e])
    /\ IF IsRateLimit(e)
       THEN /\ sleeps' = Append(sleeps, RateLimitSleep)
            /\ UNCHANGED <<attempt, call_result, ipc>>
       ELSE IF attempt < max_retries - 1
       THEN /\ sleeps' = Append(sleeps, BackoffSleep(attempt))
            /\ attempt' = NextAttempt(attempt)
            /\ UNCHANGED <<call_result, ipc>>
       ELSE /\ call_result' = ExhaustedMsg(max_retries, e)
            /\ ipc' = "returned"
            /\ UNCHANGED <<sleeps, attempt>>
    /\ UNCHANGED max_retries
    /\ UNCHANGED <<extractVars, refactorVars, webVars, statusVars, cliVars>>

\* agent.py 51-63: the except clause, entered with an exception whose str is e
Handle(e, kind) ==
    /\ calls' = calls + 1
    /\ outcomes' = Append(outcomes, [kind |-> kind, text |-> e])
    /\ IF IsRateLimit(e)
       THEN /\ sleeps' = Append(sleeps, RateLimitSleep)
            /\ attempt' = NextAttempt(attempt)
            /\ UNCHANGED <<call_result, ipc>>
       ELSE IF attempt < max_retries - 1
       THEN /\ sleeps' = Append(sleeps, BackoffSleep(attempt))
            /\ attempt' = NextAttempt(attempt)
            /\ UNCHANGED <<call_result, ipc>>
       ELSE /\ call_result' = ExhaustedMsg(max_retries, e)
            /\ ipc' = "returned"
            /\ UNCHANGED <<sleeps, attempt>>
    /\ UNCHANGED max_retries
    /\ UNCHANGED <<extractVars, refactorVars, webVars, statusVars, cliVars>>

\* agent.py 37-40, 51: generate_content raises
AttemptRaise(e) ==
    /\ ipc = "loop" /\ attempt < max_retries
    /\ Handle(e, "raise")

\* agent.py 43, 51: the response has no candidates; candidates[0] raises IndexError
AttemptNoCandidates ==
    /\ ipc = "loop" /\ attempt < max_retries
    /\ Handle(ErrIndex, "nocandidates")

\* agent.py 35, 65: the loop ends without a return
LoopExit ==
    /\ ipc = "loop" /\ ~(attempt < max_retries)
    /\ ipc' = "returned"
    /\ call_result' = UnexpectedMsg
    /\ UNCHANGED <<max_retries, attempt, calls, sleeps, outcomes>>
    /\ UNCHANGED <<extractVars, refactorVars, webVars, statusVars, cliVars>>

InitCall ==
    /\ ipc = "loop"
    /\ max_retries \in 0..MaxRetries
    /\ attempt = 0 /\ calls = 0 /\ sleeps = <<>> /\ outcomes = <<>>
    /\ call_result = Unassigned
    /\ ExtractIdle /\ RefactorIdle /\ WebIdle /\ StatusIdle /\ CliIdle

NextCall ==
    \/ \E text \in CallTexts : AttemptSuccess(text)
    \/ AttemptSafety
    \/ \E e \in ErrTexts : AttemptRaise(e)
    \/ AttemptNoCandidates
    \/ LoopExit

SpecCall == InitCall /\ [][NextCall]_vars

(***************************************************************************)
(* RefactoringAgent.refactor_code (agent.py 96-123)                        *)
(***************************************************************************)

\* Config.MAX_FILE_SIZE_FOR_REFACTORING (config.py 21, read from the environment;
\* 15000 by default)
MAX_FILE_SIZE_FOR_REFACTORING == 3

\* the strings _call_gemini_api returns when no attempt succeeded
FailureStrings ==
    {SafetyBlockedMsg, UnexpectedMsg}
        \cup {ExhaustedMsg(n, e) : n \in 1..MaxRetries, e \in ErrTexts}

\* agent.py 101: len(code_content) > Config.MAX_FILE_SIZE_FOR_REFACTORING
TooLarge(content) == Len(content) > MAX_FILE_SIZE_FOR_REFACTORING

\* agent.py 101-103: the file is over the ceiling, the original is returned
\* without a remote call
RefactorTooLarge ==
    /\ rpc = "start"
    /\ TooLarge(code_content)
    /\ rpc' = "returned"
    /\ refactor_result' = code_content
    /\ UNCHANGED <<code_content, refactored_content, extracted_code, remote_calls>>
    /\ UNCHANGED fileVars
    /\ UNCHANGED <<extractVars, callVars, webVars, statusVars, cliVars>>

\* agent.py 114: refactored_content = self._call_gemini_api(...), which hands
\* back the text of a successful attempt or a failure string
RefactorCall ==
    /\ rpc = "start"
    /\ ~TooLarge(code_content)
    /\ rpc' = "called"
    /\ \E r \in Texts \cup FailureStrings : refactored_content' = r
    /\ remote_calls' = remote_calls + 1
    /\ UNCHANGED <<code_content, extracted_code, refactor_result>>
    /\ UNCHANGED fileVars
    /\ UNCHANGED <<extractVars, callVars, webVars, statusVars, cliVars>>

\* agent.py 115: extracted_code = extract_code_from_markdown(refactored_content)
RefactorExtract ==
    /\ rpc = "called"
    /\ rpc' = "extracted"
    /\ extracted_code' = extract_code_from_markdown(refactored_content)
    /\ UNCHANGED <<code_content, refactored_content, refactor_result, remote_calls>>
    /\ UNCHANGED fileVars
    /\ UNCHANGED <<extractVars, callVars, webVars, statusVars, cliVars>>

UseOriginalEmptyOnly(extracted) == extracted = <<>>

\* agent.py 118: if not extracted_code or extracted_code.startswith("Error:")
UseOriginal(extracted) == extracted = <<>> \/ StartsWith(extracted, Marker)

RefactorReturnNoFallback ==
    /\ rpc = "extracted"
    /\ rpc' = "returned"
    /\ refactor_result' = extracted_code
    /\ UNCHANGED <<code_content, refactored_content, extracted_code, remote_calls>>
    /\ UNCHANGED fileVars
    /\ UNCHANGED <<extractVars, callVars, webVars, statusVars, cliVars>>

\* agent.py 118-123: fall back to the original, or return the extracted code
RefactorReturn ==
    /\ rpc = "extracted"
    /\ rpc' = "returned"
    /\ refactor_result' = IF UseOriginal(extracted_code) THEN code_content
                          ELSE extracted_code
    /\ UNCHANGED <<code_content, refactored_content, extracted_code, remote_calls>>
    /\ UNCHANGED fileVars
    /\ UNCHANGED <<extractVars, callVars, webVars, statusVars, cliVars>>

\* text mode with newline=None on reading: CR LF and CR become LF
RECURSIVE UniversalNewlines(_)
UniversalNewlines(s) ==
    IF s = <<>> THEN <<>>
    ELSE IF Head(s) = "\r"
         THEN <<"\n">> \o UniversalNewlines(IF Len(s) >= 2 /\ s[2] = "\n"
                                             THEN SubSeq(s, 3, Len(s)) ELSE Tail(s))
    ELSE <<Head(s)>> \o UniversalNewlines(Tail(s))

\* agent.py 148-149: open(file_path, 'r', encoding='utf-8', errors='ignore')
\* and read(): invalid bytes are dropped, then line endings are translated
Decode(bytes) == UniversalNewlines(SelectSeq(bytes, LAMBDA b : b # InvalidByte))

\* os.linesep (POSIX)
linesep == <<"\n">>

\* agent.py 171-172: open(output_file_path, 'w', encoding='utf-8') and write():
\* every LF is written as os.linesep
Encode(text) ==
    Flatten([i \in 1..Len(text) |-> IF text[i] = "\n" THEN linesep ELSE <<text[i]>>])

\* the reading of the file, were only an empty content skipped
ReadSourceEmptyOnly ==
    /\ rpc = "open"
    /\ LET original_code == Decode(source_file[1])
       IN  IF original_code = <<>>
           THEN rpc' = "skipped" /\ UNCHANGED code_content
           ELSE rpc' = "analyze" /\ code_content' = original_code
    /\ UNCHANGED <<refactored_content, extracted_code, refactor_result, remote_calls>>
    /\ UNCHANGED fileVars
    /\ UNCHANGED <<extractVars, callVars, webVars, statusVars, cliVars>>

\* agent.py 148-153: run() reads the file and skips it when it is blank
ReadSource ==
    /\ rpc = "open"
    /\ LET original_code == Decode(source_file[1])
       IN  IF Strip(original_code) = <<>>
           THEN rpc' = "skipped" /\ UNCHANGED code_content
           ELSE rpc' = "analyze" /\ code_content' = original_code
    /\ UNCHANGED <<refactored_content, extracted_code, refactor_result, remote_calls>>
    /\ UNCHANGED fileVars
    /\ UNCHANGED <<extractVars, callVars, webVars, statusVars, cliVars>>

\* Config.GEMINI_MAX_RETRIES (config.py 17, read from the environment; 3 by
\* default): the max_retries of the calls analyze_code and refactor_code make
GEMINI_MAX_RETRIES == 2

\* _call_gemini_api is entered (agent.py 29-35)
EnterCall ==
    /\ ipc = "idle"
    /\ ipc' = "loop"
    /\ max_retries' = GEMINI_MAX_RETRIES
    /\ attempt' = 0 /\ calls' = 0 /\ sleeps' = <<>> /\ outcomes' = <<>>
    /\ UNCHANGED call_result

\* the returned string was taken by the caller
LeaveCall ==
    /\ ipc = "returned"
    /\ ipc' = "idle"
    /\ max_retries' = 0
    /\ attempt' = 0 /\ calls' = 0 /\ sleeps' = <<>> /\ outcomes' = <<>>
    /\ call_result' = Unassigned

\* agent.py 156, 92: run() calls analyze_code, which calls _call_gemini_api
AnalyzeEnter ==
    /\ rpc = "analyze"
    /\ rpc' = "analyzing"
    /\ EnterCall
    /\ UNCHANGED <<code_content, refactored_content, extracted_code, refactor_result,
                   remote_calls>>
    /\ UNCHANGED fileVars
    /\ UNCHANGED <<extractVars, webVars, statusVars, cliVars>>

\* agent.py 92-94, 157-163: analyze_code returns what _call_gemini_api returned,
\* failure string or not; run() appends and prints it and goes on to
\* refactor_code
AnalyzeReturn ==
    /\ rpc = "analyzing"
    /\ rpc' = "start"
    /\ LeaveCall
    /\ UNCHANGED <<code_content, refactored_content, extracted_code, refactor_result,
                   remote_calls>>
    /\ UNCHANGED fileVars
    /\ UNCHANGED <<extractVars, webVars, statusVars, cliVars>>

\* agent.py 114: refactor_code calls _call_gemini_api
RefactorEnter ==
    /\ rpc = "start"
    /\ ~TooLarge(code_content)
    /\ rpc' = "calling"
    /\ EnterCall
    /\ UNCHANGED <<code_content, refactored_content, extracted_code, refactor_result,
                   remote_calls>>
    /\ UNCHANGED fileVars
    /\ UNCHANGED <<extractVars, webVars, statusVars, cliVars>>

\* agent.py 114: refactored_content is what _call_gemini_api returned
RefactorResume ==
    /\ rpc = "calling"
    /\ ipc = "returned"
    /\ rpc' = "called"
    /\ refactored_content' = call_result
    /\ remote_calls' = remote_calls + 1
    /\ LeaveCall
    /\ UNCHANGED <<code_content, extracted_code, refactor_result>>
    /\ UNCHANGED fileVars
    /\ UNCHANGED <<extractVars, webVars, statusVars, cliVars>>

\* agent.py 169-175: run() writes what refactor_code returned to the mirrored
\* path; a failure is caught at 180 and leaves no file
PersistFile ==
    /\ rpc = "returned"
    /\ source_file # Nil
    /\ \E ok \in BOOLEAN :
          IF ok THEN rpc' = "persisted" /\ output_file' = <<Encode(refactor_result)>>
          ELSE rpc' = "failed" /\ UNCHANGED output_file
    /\ UNCHANGED <<code_content, refactored_content, extracted_code, refactor_result,
                   remote_calls, source_file>>
    /\ UNCHANGED <<extractVars, callVars, webVars, statusVars, cliVars>>

\* refactor_code is called with some content, or run() meets a file
InitRefactor ==
    /\ \/ rpc = "start" /\ source_file = Nil /\ code_content \in Contents
       \/ rpc = "open" /\ source_file \in {<<f>> : f \in SourceFiles}
                        /\ code_content = <<>>
    /\ output_file = Nil
    /\ refactored_content = Unassigned
    /\ extracted_code = Unassigned
    /\ refactor_result = Unassigned
    /\ remote_calls = 0
    /\ ExtractIdle /\ CallIdle /\ WebIdle /\ StatusIdle /\ CliIdle

NextRefactor ==
    \/ ReadSource
    \/ AnalyzeEnter
    \/ NextCall
    \/ AnalyzeReturn
    \/ PersistFile
    \/ RefactorTooLarge
    \/ RefactorCall
    \/ RefactorExtract
    \/ RefactorReturn

SpecRefactor == InitRefactor /\ [][NextRefactor]_vars

\* The per-file body of run() with both remote calls made through
\* _call_gemini_api: a step that can be taken is eventually taken (a call
\* returns, a sleep ends, the thread is not suspended for ever).
InitFile == InitRefactor /\ rpc = "open"

NextFile ==
    \/ ReadSource
    \/ AnalyzeEnter
    \/ NextCall
    \/ AnalyzeReturn
    \/ RefactorTooLarge
    \/ RefactorEnter
    \/ RefactorResume
    \/ RefactorExtract
    \/ RefactorReturn
    \/ PersistFile

SpecFile == InitFile /\ [][NextFile]_vars /\ WF_<<rpc, ipc, attempt>>(NextFile)

(***************************************************************************)
(* utils.extract_code_from_markdown applied to a text and to its own result *)
(***************************************************************************)

\* the interiors of the fenced blocks of the model
Interiors == {<<"a">>, <<":">>, <<"a", "\n", ":">>}

\* a language tag, or none
Tags == {<<>>, <<"t">>}

\* a fenced block around x: the closing fence on a line of its own, or inline
FencedBlock(style, tag, x) ==
    IF style = "line" THEN Fence \o tag \o <<"\n">> \o x \o <<"\n">> \o Fence
    ELSE Fence \o tag \o <<" ">> \o x \o Fence

Styles == {"line", "inline"}

\* prose before the first block, between the blocks and after the second
Before  == {<<>>, <<"a", "\n">>}
Between == {<<"\n">>, <<" ">>, <<"\n", "a", "\n">>}
After   == {<<>>, <<"\n", "a">>}

\* the texts with two fenced blocks A then B, each with its A and B
TwoBlockTexts ==
    {[text |-> p \o FencedBlock(sa, ta, A) \o m \o FencedBlock(sb, tb, B) \o q,
      blocks |-> <<A, B>>] :
        p \in Before, sa \in Styles, ta \in Tags, A \in Interiors, m \in Between,
        sb \in Styles, tb \in Tags, B \in Interiors, q \in After}

\* the texts without a fence marker
PlainPieces == Pieces \ {Fence}

PlainTexts ==
    {Flatten(ps) : ps \in UNION {[1..n -> PlainPieces] : n \in 0..MaxPieces}}

\* utils.py 59-79, called with the text
ExtractFirst ==
    /\ extractions = <<>>
    /\ extractions' = <<extract_code_from_markdown(response_text)>>
    /\ UNCHANGED <<response_text, blocks>>
    /\ UNCHANGED <<refactorVars, callVars, webVars, statusVars, cliVars>>

\* utils.py 59-79, called with what it returned
ExtractAgain ==
    /\ Len(extractions) = 1
    /\ extractions' = Append(extractions, extract_code_from_markdown(extractions[1]))
    /\ UNCHANGED <<response_text, blocks>>
    /\ UNCHANGED <<refactorVars, callVars, webVars, statusVars, cliVars>>

InitExtract ==
    /\ \/ \E x \in TwoBlockTexts : response_text = x.text /\ blocks = <<x.blocks>>
       \/ response_text \in PlainTexts /\ blocks = Nil
    /\ extractions = <<>>
    /\ RefactorIdle /\ CallIdle /\ WebIdle /\ StatusIdle /\ CliIdle

NextExtract ==
    \/ ExtractFirst
    \/ ExtractAgain

SpecExtract == InitExtract /\ [][NextExtract]_vars

(***************************************************************************)
(* web_app.py: processing_state, start_refactoring, run_refactoring_task   *)
(* and the RefactoringAgent.run it calls, get_status                       *)
(***************************************************************************)

\* bound on the number of start requests that are accepted
MaxStarts == 2

\* bound on the number of accepted files under a source directory
NumFiles == 2

\* a run is named by the order in which its thread was started
Runs == 1..MaxStarts

\* A list of processing_state (logs, processed_files) is represented by the
\* number of its entries that each run appended; [] is NoEntries.
NoEntries == [r \in Runs |-> 0]

\* web_app.py 30-45 (current_file: 0 is '', i the path of the i-th file)
InitialState ==
    [active |-> FALSE, progress |-> 0, files_processed |-> 0,
     files_analyzed |-> 0, files_refactored |-> 0, current_file |-> 0,
     status |-> "idle", logs |-> NoEntries, error |-> None, temp_dir |-> Nil,
     output_dir |-> Nil, recommendations |-> Nil, interview_questions |-> Nil,
     processed_files |-> NoEntries]

\* a thread that has not been started: the arguments and locals of
\* run_refactoring_task and of agent.run (analysis_results: the records, each
\* named by the index of its file), and what the run did (exc: the exception
\* that reached line 183; failed: the files whose processing raised; blank: the
\* files skipped at agent.py 151-153; steps: what was done for the file at
\* hand, in order; synth: the synthesis calls of _call_gemini_api, in order;
\* written: the values the run assigned to processing_state['status'])
Unborn ==
    [pc |-> "unborn", git |-> FALSE, skip_analysis |-> FALSE,
     skip_refactoring |-> FALSE, temp_dir |-> FALSE,
     idx |-> 0, processed_files |-> 0, analysis_results |-> <<>>, docs |-> {},
     exc |-> None, failed |-> {}, blank |-> {}, steps |-> <<>>, synth |-> <<>>,
     written |-> <<>>]

StarterIdle ==
    [pc |-> "idle", git |-> FALSE, skip_analysis |-> FALSE,
     skip_refactoring |-> FALSE]

\* the fields get_status returns (web_app.py 247-258), in the order it reads them
ResponseFields ==
    <<"active", "progress", "files_processed", "files_analyzed",
      "files_refactored", "current_file", "status", "logs",
      "error", "recommendations", "interview_questions", "processed_files">>

Snapshot(ps) == [i \in 1..Len(ResponseFields) |-> ps[ResponseFields[i]]]

\* bookkeeping of the values processing_state takes while a status query runs
Observe ==
    /\ instants' = IF hpc > 0 THEN instants \cup {Snapshot(processing_state')}
                   ELSE instants
    /\ UNCHANGED <<hpc, response>>

\* add_log (web_app.py 47-53) called by run t on the dict ps, then go to next
Log(ps, t, next) ==
    [f |-> "logs", v |-> [ps.logs EXCEPT ![t] = @ + 1], next |-> next]

Assign(f, v, next) == [f |-> f, v |-> v, next |-> next]

(* run_refactoring_task, statement by statement: a position "wN" is line N of  *)
(* web_app.py, "aN" line N of agent.py; each entry is the field of             *)
(* processing_state the statement assigns, the value (computed from the        *)
(* current dict ps), and the next position.                                    *)

\* web_app.py 77-86
Begin(ps, t, pc) ==
    CASE pc = "w77" -> Assign("active", TRUE, "w78")
      [] pc = "w78" -> Assign("status", "running", "w79")
      [] pc = "w79" -> Assign("error", None, "w80")
      [] pc = "w80" -> Assign("logs", NoEntries, "w81")
      [] pc = "w81" -> Assign("output_dir", <<t>>, "w82")
      [] pc = "w82" -> Assign("recommendations", Nil, "w83")
      [] pc = "w83" -> Assign("interview_questions", Nil, "w84")
      [] pc = "w84" -> Assign("processed_files", NoEntries, "w86")
      [] pc = "w86" -> Log(ps, t, "w89")

BeginPcs == {"w77", "w78", "w79", "w80", "w81", "w82", "w83", "w84", "w86"}

\* the early returns, were the missing-key return to leave the status alone
AbortKeepsStatus(ps, t, pc) ==
    CASE pc = "w90"  -> Log(ps, t, "w91")
      [] pc = "w91"  -> Assign("error", "API key not configured", "w92")
      [] pc = "w92"  -> Log(ps, t, "w189")
      [] pc = "w100" -> Log(ps, t, "w101")
      [] pc = "w101" -> Assign("error", "Failed to clone repository", "w102")
      [] pc = "w102" -> Assign("status", "error", "w189")
      [] pc = "w110" -> Log(ps, t, "w111")
      [] pc = "w111" -> Assign("error", "Invalid source directory", "w112")
      [] pc = "w112" -> Assign("status", "error", "w189")

\* web_app.py 90-93, 100-103, 110-113: the three early returns
Abort(ps, t, pc) ==
    CASE pc = "w90"  -> Log(ps, t, "w91")
      [] pc = "w91"  -> Assign("error", "API key not configured", "w92")
      [] pc = "w92"  -> Assign("status", "error", "w189")
      [] pc = "w100" -> Log(ps, t, "w101")
      [] pc = "w101" -> Assign("error", "Failed to clone repository", "w102")
      [] pc = "w102" -> Assign("status", "error", "w189")
      [] pc = "w110" -> Log(ps, t, "w111")
      [] pc = "w111" -> Assign("error", "Invalid source directory", "w112")
      [] pc = "w112" -> Assign("status", "error", "w189")

AbortPcs == {"w90", "w91", "w92", "w100", "w101", "w102", "w110", "w111", "w112"}

\* web_app.py 97-176: the other statements that write processing_state
Track(ps, t, pc) ==
    CASE pc = "w97"  -> Log(ps, t, "w98")
      [] pc = "w105" -> Assign("temp_dir", <<t>>, "w106")
      [] pc = "w106" -> Log(ps, t, "w109")
      [] pc = "w115" -> Log(ps, t, "w116")
      [] pc = "w116" -> Log(ps, t, "w117")
      [] pc = "w117" -> Log(ps, t, "w120")
      [] pc = "w121" -> Log(ps, t, "w122")
      [] pc = "w157" -> Log(ps, t, "a134")
      [] pc = "w133" -> Assign("current_file", threads[t].idx, "w134")
      [] pc = "w134" -> Log(ps, t, "w135")
      [] pc = "w136" -> Assign("files_analyzed", ps.files_analyzed + 1, "w137")
      [] pc = "w137" -> Assign("processed_files",
                               [ps.processed_files EXCEPT ![t] = @ + 1], "a157")
      [] pc = "w146" -> Log(ps, t, "w147")
      [] pc = "w148" -> Assign("files_refactored", ps.files_refactored + 1, "w149")
      [] pc = "w149" -> Assign("files_processed", ps.files_processed + 1, "a170")
      [] pc = "w163" -> Log(ps, t, "w165")
      [] pc = "w165" -> Assign("recommendations", <<t>>, "w168")
      [] pc = "w169" -> Log(ps, t, "a259")
      [] pc = "w176" -> Assign("interview_questions", <<t>>, "w178")

TrackPcs == {"w97", "w105", "w106", "w115", "w116", "w117", "w121", "w157", "w133",
             "w134", "w136", "w137", "w146", "w148", "w149", "w163", "w165", "w169",
             "w176"}

\* web_app.py 178-181
Completed(ps, t, pc) ==
    CASE pc = "w178" -> Assign("progress", 100, "w179")
      [] pc = "w179" -> Assign("status", "completed", "w180")
      [] pc = "w180" -> Log(ps, t, "w181")
      [] pc = "w181" -> Log(ps, t, "w189")

CompletedPcs == {"w178", "w179", "w180", "w181"}

\* the except clause, were the function left from it without the finally clause
ExceptSkipsFinally(ps, t, pc) ==
    CASE pc = "w184" -> Log(ps, t, "w185")
      [] pc = "w185" -> Assign("error", threads[t].exc, "w186")
      [] pc = "w186" -> Assign("status", "error", "done")

\* web_app.py 183-186: except Exception as e
Except(ps, t, pc) ==
    CASE pc = "w184" -> Log(ps, t, "w185")
      [] pc = "w185" -> Assign("error", threads[t].exc, "w186")
      [] pc = "w186" -> Assign("status", "error", "w189")

ExceptPcs == {"w184", "w185", "w186"}

\* the finally clause, were it to put the status back to idle
FinallyIdle(ps, t, pc) ==
    CASE pc = "w189" -> Assign("status", "idle", "w192")
      [] pc = "w193" -> Log(ps, t, "w195")
      [] pc = "w197" -> Log(ps, t, "done")

\* web_app.py 188-197: finally
Finally(ps, t, pc) ==
    CASE pc = "w189" -> Assign("active", FALSE, "w192")
      [] pc = "w193" -> Log(ps, t, "w195")
      [] pc = "w197" -> Log(ps, t, "done")

FinallyPcs == {"w189", "w193", "w197"}

Line(ps, t, pc) ==
    CASE pc \in BeginPcs     -> Begin(ps, t, pc)
      [] pc \in AbortPcs     -> Abort(ps, t, pc)
      [] pc \in TrackPcs     -> Track(ps, t, pc)
      [] pc \in CompletedPcs -> Completed(ps, t, pc)
      [] pc \in ExceptPcs    -> Except(ps, t, pc)
      [] pc \in FinallyPcs   -> Finally(ps, t, pc)

LinePcs == BeginPcs \cup AbortPcs \cup TrackPcs \cup CompletedPcs \cup ExceptPcs
               \cup FinallyPcs

\* one statement of run_refactoring_task that writes processing_state
Statement(t) ==
    /\ threads[t].pc \in LinePcs
    /\ LET e == Line(processing_state, t, threads[t].pc)
       IN  /\ processing_state' = [processing_state EXCEPT ![e.f] = e.v]
           /\ threads' = [threads EXCEPT
                             ![t].pc = e.next,
                             ![t].written = IF e.f = "status" THEN Append(@, e.v) ELSE @]
    /\ UNCHANGED <<nstarted, starter, nfiles, form>>
    /\ Observe
    /\ UNCHANGED <<extractVars, refactorVars, callVars, cliVars>>

\* the statements from pc up to the next call out of run_refactoring_task (a
\* remote call, file I/O, a sleep), run on the dict ps
RECURSIVE Exec(_, _, _, _)
Exec(ps, t, pc, written) ==
    IF pc \notin LinePcs THEN [ps |-> ps, pc |-> pc, written |-> written]
    ELSE LET e == Line(ps, t, pc)
         IN  Exec([ps EXCEPT ![e.f] = e.v], t, e.next,
                  IF e.f = "status" THEN Append(written, e.v) ELSE written)

\* the same statements, taken without another thread running in between
Block(t) ==
    /\ threads[t].pc \in LinePcs
    /\ LET r == Exec(processing_state, t, threads[t].pc, threads[t].written)
       IN  /\ processing_state' = r.ps
           /\ threads' = [threads EXCEPT ![t].pc = r.pc, ![t].written = r.written]
    /\ UNCHANGED <<nstarted, starter, nfiles, form>>
    /\ Observe
    /\ UNCHANGED <<extractVars, refactorVars, callVars, cliVars>>

\* a step of thread t that writes only its locals
Local(t, th) ==
    /\ threads' = [threads EXCEPT ![t] = th]
    /\ UNCHANGED <<processing_state, nstarted, starter, nfiles, form>>
    /\ Observe
    /\ UNCHANGED <<extractVars, refactorVars, callVars, cliVars>>

At(t, pc) == [threads[t] EXCEPT !.pc = pc]

\* an exception e reaches the except clause of run_refactoring_task (line 183)
Raise(t, e) == [threads[t] EXCEPT !.pc = "w184", !.exc = e]

\* the per-file try, were its exception to leave agent.run
CaughtNowhere(t) == [threads[t] EXCEPT !.pc = "w184", !.exc = "file"]

\* agent.py 180-181: an exception in the per-file try is printed and the loop
\* goes on with the next file
Caught(t) ==
    [threads[t] EXCEPT !.pc = "a142", !.idx = @ + 1, !.failed = @ \cup {threads[t].idx}]

\* web_app.py 89: Config.validate()
ValidateKey(t) ==
    /\ threads[t].pc = "w89"
    /\ \E ok \in BOOLEAN : Local(t, At(t, IF ok THEN "w96" ELSE "w90"))

\* web_app.py 96: is_git_repo(source_path)
CheckGit(t) ==
    /\ threads[t].pc = "w96"
    /\ Local(t, At(t, IF threads[t].git THEN "w97" ELSE "w109"))

\* web_app.py 98-104: clone_repo returns the temporary directory or None
Clone(t) ==
    /\ threads[t].pc = "w98"
    /\ \E ok \in BOOLEAN :
          Local(t, IF ok THEN [threads[t] EXCEPT !.pc = "w105", !.temp_dir = TRUE]
                   ELSE At(t, "w100"))

\* the validation, were it to accept a directory without files
ValidateSourceLenient(t) ==
    /\ threads[t].pc = "w109"
    /\ Local(t, At(t, "w115"))

\* web_app.py 109, utils.py 164-187: validate_source_directory(source_path) is
\* False for a path that is no directory or holds no file
ValidateSource(t) ==
    /\ threads[t].pc = "w109"
    /\ Local(t, At(t, IF form.source = "files" THEN "w115" ELSE "w110"))

\* web_app.py 120: os.path.exists(output_dir)
CheckOutput(t) ==
    /\ threads[t].pc = "w120"
    /\ \E exists \in BOOLEAN : Local(t, At(t, IF exists THEN "w121" ELSE "w125"))

\* web_app.py 122: shutil.rmtree(output_dir), which may raise
Rmtree(t) ==
    /\ threads[t].pc = "w122"
    /\ \E ok \in BOOLEAN : Local(t, IF ok THEN At(t, "w125") ELSE Raise(t, "rmtree"))

\* web_app.py 125-154: the agent is created and its two methods are wrapped
CreateAgent(t) ==
    /\ threads[t].pc = "w125"
    /\ Local(t, At(t, "w157"))

\* web_app.py 158, agent.py 129-136: agent.run() begins; os.makedirs may raise
MakeDirs(t) ==
    /\ threads[t].pc = "a134"
    /\ \E ok \in BOOLEAN :
          Local(t, IF ok THEN [threads[t] EXCEPT !.pc = "a142", !.idx = 1]
                   ELSE Raise(t, "makedirs"))

\* agent.py 138-145: the next accepted file of the walk, or the end of the loop
LoopHead(t) ==
    /\ threads[t].pc = "a142"
    /\ Local(t, IF threads[t].idx <= nfiles
                 THEN [threads[t] EXCEPT !.pc = "a148", !.steps = <<>>]
                 ELSE At(t, "a183"))

\* agent.py 148-153: the file is read; an empty or blank file is skipped
ReadFile(t) ==
    /\ threads[t].pc = "a148"
    /\ \E r \in {"text", "blank", "raise"} :
          Local(t, CASE r = "text"  -> At(t, "w133")
                     [] r = "blank" -> [threads[t] EXCEPT
                                           !.pc = "a142", !.idx = @ + 1,
                                           !.blank = @ \cup {threads[t].idx}]
                     [] r = "raise" -> Caught(t))

\* the analysis, were the refactoring requested before its record is appended
AnalyzeThenRefactor(t) ==
    /\ threads[t].pc = "w135"
    /\ \E ok \in BOOLEAN :
          Local(t, IF ok THEN [threads[t] EXCEPT !.pc = "w146",
                                                  !.steps = Append(@, "analyze")]
                   ELSE Caught(t))

\* web_app.py 135, agent.py 71-94: original_analyze
Analyze(t) ==
    /\ threads[t].pc = "w135"
    /\ \E ok \in BOOLEAN :
          Local(t, IF ok THEN [threads[t] EXCEPT !.pc = "w136",
                                                  !.steps = Append(@, "analyze")]
                   ELSE Caught(t))

\* the record, were it put in front of the earlier ones
AppendAnalysisFront(t) ==
    /\ threads[t].pc = "a157"
    /\ Local(t, [threads[t] EXCEPT
                    !.pc = "w146",
                    !.analysis_results = <<threads[t].idx>> \o @,
                    !.steps = @ \o <<"append", "delay">>])

\* agent.py 157-163: the analysis is appended to analysis_results, then
\* time.sleep(1)
AppendAnalysis(t) ==
    /\ threads[t].pc = "a157"
    /\ Local(t, [threads[t] EXCEPT
                    !.pc = "w146",
                    !.analysis_results = Append(@, threads[t].idx),
                    !.steps = @ \o <<"append", "delay">>])

\* web_app.py 147, agent.py 96-123: original_refactor
Refactor(t) ==
    /\ threads[t].pc = "w147"
    /\ \E ok \in BOOLEAN :
          Local(t, IF ok THEN [threads[t] EXCEPT !.pc = "w148",
                                                  !.steps = Append(@, "refactor")]
                   ELSE Caught(t))

\* agent.py 169-178: the refactored file is written and counted, then
\* time.sleep(2)
Persist(t) ==
    /\ threads[t].pc = "a170"
    /\ \E ok \in BOOLEAN :
          Local(t, IF ok THEN [threads[t] EXCEPT
                                  !.pc = "a142", !.idx = @ + 1,
                                  !.processed_files = @ + 1,
                                  !.steps = @ \o <<"persist", "delay">>]
                   ELSE Caught(t))

\* agent.py 183-188
AfterLoop(t) ==
    /\ threads[t].pc = "a183"
    /\ Local(t, At(t, IF threads[t].processed_files > 0 THEN "a196" ELSE "w161"))

\* agent.py 190-226: generate_overall_recommendations: one call of
\* _call_gemini_api, then the document is written; writing may raise, and
\* nothing in agent.run catches it
Recommend(t) ==
    /\ threads[t].pc = "a196"
    /\ \E ok \in BOOLEAN :
          Local(t, IF threads[t].analysis_results = <<>> THEN At(t, "w161")
                   ELSE IF ok THEN [threads[t] EXCEPT !.pc = "w161",
                                                        !.synth = Append(@, "rec"),
                                                        !.docs = @ \cup {"rec"}]
                   ELSE [Raise(t, "recommendations") EXCEPT
                            !.synth = Append(@, "rec")])

\* web_app.py 161-162: os.path.exists(recommendations_path)
CheckRecommendations(t) ==
    /\ threads[t].pc = "w161"
    /\ Local(t, At(t, IF "rec" \in threads[t].docs THEN "w163" ELSE "w168"))

\* web_app.py 168: if not skip_analysis and agent.analysis_results
CheckQuestions(t) ==
    /\ threads[t].pc = "w168"
    /\ Local(t, At(t, IF ~threads[t].skip_analysis /\ threads[t].analysis_results # <<>>
                      THEN "w169" ELSE "w178"))

\* web_app.py 170, agent.py 228-267: generate_interview_questions: one call of
\* _call_gemini_api, then the document is written, which may raise
InterviewQuestions(t) ==
    /\ threads[t].pc = "a259"
    /\ \E ok \in BOOLEAN :
          Local(t, IF threads[t].analysis_results = <<>> THEN At(t, "w174")
                   ELSE IF ok THEN [threads[t] EXCEPT !.pc = "w174",
                                                        !.synth = Append(@, "iq"),
                                                        !.docs = @ \cup {"iq"}]
                   ELSE [Raise(t, "questions") EXCEPT !.synth = Append(@, "iq")])

\* web_app.py 173-174: os.path.exists(questions_path)
ReadQuestions(t) ==
    /\ threads[t].pc = "w174"
    /\ Local(t, At(t, IF "iq" \in threads[t].docs THEN "w176" ELSE "w178"))

\* web_app.py 192: if temp_dir and os.path.exists(temp_dir)
CleanupCheck(t) ==
    /\ threads[t].pc = "w192"
    /\ Local(t, At(t, IF threads[t].temp_dir THEN "w193" ELSE "done"))

\* web_app.py 194-197: shutil.rmtree(temp_dir), which may raise
CleanupRmtree(t) ==
    /\ threads[t].pc = "w195"
    /\ \E ok \in BOOLEAN :
          Local(t, IF ok THEN [threads[t] EXCEPT !.pc = "done", !.temp_dir = FALSE]
                   ELSE At(t, "w197"))

(* start_refactoring (web_app.py 209-241) *)

\* web_app.py 212-213: a task is active, the request is refused
StartRejectedActive ==
    /\ starter.pc = "idle"
    /\ processing_state.active
    /\ UNCHANGED webVars
    /\ Observe
    /\ UNCHANGED <<extractVars, refactorVars, callVars, cliVars>>

\* the refusal for a missing source path, were the reset of lines 227-231 placed
\* before the test of line 223
StartRejectedSourceAfterReset ==
    /\ starter.pc = "idle"
    /\ ~processing_state.active
    /\ processing_state' = [processing_state EXCEPT
                               !.progress = 0, !.files_processed = 0,
                               !.files_analyzed = 0, !.files_refactored = 0,
                               !.current_file = 0]
    /\ UNCHANGED <<threads, nstarted, starter, nfiles, form>>
    /\ Observe
    /\ UNCHANGED <<extractVars, refactorVars, callVars, cliVars>>

\* web_app.py 223-224: no source path, the request is refused
StartRejectedSource ==
    /\ starter.pc = "idle"
    /\ ~processing_state.active
    /\ UNCHANGED webVars
    /\ Observe
    /\ UNCHANGED <<extractVars, refactorVars, callVars, cliVars>>

\* web_app.py 212-224: the request passes both tests
StartAccept ==
    /\ starter.pc = "idle"
    /\ ~processing_state.active
    /\ nstarted < MaxStarts
    /\ starter' = [pc |-> "s227", git |-> form.git,
                    skip_analysis |-> form.skip_analysis,
                    skip_refactoring |-> form.skip_refactoring]
    /\ UNCHANGED <<processing_state, threads, nstarted, nfiles, form>>
    /\ Observe
    /\ UNCHANGED <<extractVars, refactorVars, callVars, cliVars>>

\* web_app.py 227-231
Reset(pc) ==
    CASE pc = "s227" -> Assign("progress", 0, "s228")
      [] pc = "s228" -> Assign("files_processed", 0, "s229")
      [] pc = "s229" -> Assign("files_analyzed", 0, "s230")
      [] pc = "s230" -> Assign("files_refactored", 0, "s231")
      [] pc = "s231" -> Assign("current_file", 0, "s234")

ResetPcs == {"s227", "s228", "s229", "s230", "s231"}

StartReset ==
    /\ starter.pc \in ResetPcs
    /\ LET e == Reset(starter.pc)
       IN  /\ processing_state' = [processing_state EXCEPT ![e.f] = e.v]
           /\ starter' = [starter EXCEPT !.pc = e.next]
    /\ UNCHANGED <<threads, nstarted, nfiles, form>>
    /\ Observe
    /\ UNCHANGED <<extractVars, refactorVars, callVars, cliVars>>

\* web_app.py 227-231, taken without a thread running in between
StartResetBlock ==
    /\ starter.pc = "s227"
    /\ processing_state' = [processing_state EXCEPT
                               !.progress = 0, !.files_processed = 0,
                               !.files_analyzed = 0, !.files_refactored = 0,
                               !.current_file = 0]
    /\ starter' = [starter EXCEPT !.pc = "s234"]
    /\ UNCHANGED <<threads, nstarted, nfiles, form>>
    /\ Observe
    /\ UNCHANGED <<extractVars, refactorVars, callVars, cliVars>>

\* web_app.py 234-241: the thread is started and the request answered
StartThread ==
    /\ starter.pc = "s234"
    /\ nstarted' = nstarted + 1
    /\ threads' = [threads EXCEPT ![nstarted + 1] =
                      [Unborn EXCEPT !.pc = "w77", !.git = starter.git,
                                     !.skip_analysis = starter.skip_analysis,
                                     !.skip_refactoring = starter.skip_refactoring]]
    /\ starter' = StarterIdle
    /\ UNCHANGED <<processing_state, nfiles, form>>
    /\ Observe
    /\ UNCHANGED <<extractVars, refactorVars, callVars, cliVars>>

(* get_status (web_app.py 243-259): the twelve fields are read in the order of *)
(* the dict literal; the worker can run between two reads. The model lets it   *)
(* run between groups of four reads.                                           *)

GroupSize == 4

StatusBegin ==
    /\ hpc = 0
    /\ hpc' = 1
    /\ response' = <<>>
    /\ instants' = {Snapshot(processing_state)}
    /\ UNCHANGED <<extractVars, refactorVars, callVars, webVars, cliVars>>

StatusRead ==
    /\ hpc \in 1..(Len(ResponseFields) \div GroupSize)
    /\ response' = response \o
          [i \in 1..GroupSize |->
              processing_state[ResponseFields[(hpc - 1) * GroupSize + i]]]
    /\ hpc' = hpc + 1
    /\ UNCHANGED instants
    /\ UNCHANGED <<extractVars, refactorVars, callVars, webVars, cliVars>>

\* the dict is complete and is returned
StatusReturn ==
    /\ hpc = Len(ResponseFields) \div GroupSize + 1
    /\ hpc' = 0
    /\ response' = None
    /\ instants' = {}
    /\ UNCHANGED <<extractVars, refactorVars, callVars, webVars, cliVars>>

InitWeb ==
    /\ processing_state = InitialState
    /\ threads = [r \in Runs |-> Unborn]
    /\ starter = StarterIdle
    /\ form \in {f \in [git : BOOLEAN, skip_analysis : BOOLEAN,
                         skip_refactoring : BOOLEAN,
                         source : {"empty", "files"}] :
                      f.git => f.source = "files"}
    /\ StatusIdle
    /\ ExtractIdle /\ RefactorIdle /\ CallIdle /\ CliIdle

\* the steps of a worker thread other than its writes of processing_state
Work(t) ==
    \/ ValidateKey(t)
    \/ CheckGit(t)
    \/ Clone(t)
    \/ ValidateSource(t)
    \/ CheckOutput(t)
    \/ Rmtree(t)
    \/ CreateAgent(t)
    \/ MakeDirs(t)
    \/ LoopHead(t)
    \/ ReadFile(t)
    \/ Analyze(t)
    \/ AppendAnalysis(t)
    \/ Refactor(t)
    \/ Persist(t)
    \/ AfterLoop(t)
    \/ Recommend(t)
    \/ CheckRecommendations(t)
    \/ CheckQuestions(t)
    \/ InterviewQuestions(t)
    \/ ReadQuestions(t)
    \/ CleanupCheck(t)
    \/ CleanupRmtree(t)

\* The web application under concurrent start requests: up to MaxStarts runs of
\* a one-file directory; the threads interleave where they call out.
Init ==
    /\ InitWeb
    /\ nstarted = 0
    /\ nfiles = 1
    /\ form.source = "files"
    /\ ~form.skip_refactoring

Next ==
    \/ StartRejectedActive
    \/ StartRejectedSource
    \/ StartAccept
    \/ StartResetBlock
    \/ StartThread
    \/ \E t \in Runs : Block(t)
    \/ \E t \in Runs : Work(t)

Spec == Init /\ [][Next]_vars

\* One run, statement by statement, of a directory of up to NumFiles files.
InitRun ==
    /\ InitWeb
    /\ nstarted = MaxStarts - 1
    /\ nfiles \in 0..NumFiles
    /\ nfiles > 0 => form.source = "files"

NextRun ==
    \/ StartRejectedActive
    \/ StartRejectedSource
    \/ StartAccept
    \/ StartReset
    \/ StartThread
    \/ \E t \in Runs : Statement(t)
    \/ \E t \in Runs : Work(t)

SpecRun == InitRun /\ [][NextRun]_vars

\* One run of a one-file directory, statement by statement, observed by status
\* queries.
InitStatus ==
    /\ InitWeb
    /\ nstarted = MaxStarts - 1
    /\ nfiles = 1
    /\ form.source = "files"
    /\ ~form.skip_refactoring

NextStatus ==
    \/ NextRun
    \/ StatusBegin
    \/ StatusRead
    \/ StatusReturn

SpecStatus == InitStatus /\ [][NextStatus]_vars

\* web_app.py 212-224: a start request that arrives while no run is in progress
StartAcceptIdle ==
    /\ \A t \in Runs : threads[t].pc \in {"unborn", "done"}
    /\ StartAccept

\* Two runs of a one-file directory, one after the other and statement by
\* statement: the second start request arrives after the first run has ended.
InitAgain ==
    /\ InitWeb
    /\ nstarted = MaxStarts - 2
    /\ nfiles = 1
    /\ form.source = "files"
    /\ ~form.skip_refactoring

NextAgain ==
    \/ StartRejectedActive
    \/ StartRejectedSource
    \/ StartAcceptIdle
    \/ StartReset
    \/ StartThread
    \/ \E t \in Runs : Statement(t)
    \/ \E t \in Runs : Work(t)

SpecAgain == InitAgain /\ [][NextAgain]_vars

\* a step of a worker thread
WorkerStep == \E t \in Runs : Statement(t) \/ Work(t)

\* The same two runs with the worker threads scheduled: a thread that can take
\* a step eventually takes one (every call out of the thread returns or
\* raises: the remote calls have a timeout and a bounded number of attempts).
SpecGate == InitAgain /\ [][NextAgain]_vars /\ WF_vars(WorkerStep)

(***************************************************************************)
(* main (main.py 13-157): a position "mN" is line N of main.py             *)
(***************************************************************************)

\* a step of main() that takes its record to c
MainStep(c) ==
    /\ cli' = c
    /\ UNCHANGED <<extractVars, refactorVars, callVars, webVars, statusVars>>

\* main() returns (or is left by an exception) with ret
Return(ret) == [cli EXCEPT !.pc = "done", !.ret = ret]

\* main.py 70-75: Config.validate()
MainValidateKey ==
    /\ cli.pc = "m70"
    /\ \E ok \in BOOLEAN :
          MainStep(IF ok THEN [cli EXCEPT !.pc = "m81"] ELSE Return("1"))

\* main.py 81-86: clone_repo returns the temporary directory, or None after
\* removing what it created (utils.py 38-57)
MainClone ==
    /\ cli.pc = "m81"
    /\ \E ok \in BOOLEAN :
          MainStep(IF ~cli.git THEN [cli EXCEPT !.pc = "m89"]
                   ELSE IF ok THEN [cli EXCEPT !.pc = "m89", !.temp_dir = TRUE]
                   ELSE Return("1"))

\* the failed validation, were it to return without removing the clone
MainValidateSourceNoCleanup ==
    /\ cli.pc = "m89"
    /\ \E ok \in BOOLEAN :
          MainStep(IF ok THEN [cli EXCEPT !.pc = "m95"] ELSE Return("1"))

\* main.py 89-92: validate_source_directory(source_path)
MainValidateSource ==
    /\ cli.pc = "m89"
    /\ \E ok \in BOOLEAN :
          MainStep(IF ok THEN [cli EXCEPT !.pc = "m95"]
                   ELSE IF cli.temp_dir THEN [cli EXCEPT !.pc = "m91"]
                   ELSE Return("1"))

\* main.py 91, 102: shutil.rmtree(temp_dir) outside any try; if it raises, the
\* exception leaves main()
MainRmtreeEarly ==
    /\ cli.pc \in {"m91", "m102"}
    /\ \E ok \in BOOLEAN :
          MainStep(IF ok THEN [Return("1") EXCEPT !.temp_dir = FALSE]
                   ELSE Return("exception"))

\* main.py 95-103: an existing output directory is removed; a failure is
\* caught and main() returns 1
MainCleanOutput ==
    /\ cli.pc = "m95"
    /\ \E r \in {"absent", "removed", "raise"} :
          MainStep(IF r # "raise" THEN [cli EXCEPT !.pc = "m107"]
                   ELSE IF cli.temp_dir THEN [cli EXCEPT !.pc = "m102"]
                   ELSE Return("1"))

\* main.py 107-112: the agent is created; both skip flags are refused
MainCheckFlags ==
    /\ cli.pc = "m107"
    /\ MainStep(IF cli.skip_analysis /\ cli.skip_refactoring
                THEN [cli EXCEPT !.pc = "m152", !.ret = "1"]
                ELSE [cli EXCEPT !.pc = "m125"])

\* main.py 125, 140-149: agent.run() returns, or raises into one of the two
\* except clauses
MainRun ==
    /\ cli.pc = "m125"
    /\ \E ok \in BOOLEAN :
          MainStep(IF ok THEN [cli EXCEPT !.pc = "m135"]
                   ELSE [cli EXCEPT !.pc = "m152", !.ret = "1"])

\* main.py 135-138: the interview questions, which may raise, then return 0
MainQuestions ==
    /\ cli.pc = "m135"
    /\ \E ok \in BOOLEAN :
          MainStep(IF cli.skip_analysis \/ ok
                   THEN [cli EXCEPT !.pc = "m152", !.ret = "0"]
                   ELSE [cli EXCEPT !.pc = "m152", !.ret = "1"])

\* main.py 150-152: finally: if temp_dir
MainFinally ==
    /\ cli.pc = "m152"
    /\ MainStep([cli EXCEPT !.pc = IF cli.temp_dir THEN "m155" ELSE "done"])

\* main.py 154-157: shutil.rmtree(temp_dir); a failure is printed as a warning
MainRmtreeFinally ==
    /\ cli.pc = "m155"
    /\ \E ok \in BOOLEAN :
          MainStep([cli EXCEPT !.pc = "done", !.temp_dir = ~ok])

\* the web application as constructed, which main() never touches
WebUnused ==
    /\ processing_state = InitialState
    /\ threads = [r \in Runs |-> Unborn]
    /\ starter = StarterIdle
    /\ nstarted = 0 /\ nfiles = 0
    /\ form = [git |-> FALSE, skip_analysis |-> FALSE,
               skip_refactoring |-> FALSE, source |-> "empty"]

InitMain ==
    /\ cli \in [pc : {"m70"}, git : BOOLEAN, skip_analysis : BOOLEAN,
                 skip_refactoring : BOOLEAN, temp_dir : {FALSE}, ret : {"none"}]
    /\ WebUnused
    /\ ExtractIdle /\ RefactorIdle /\ CallIdle /\ StatusIdle

NextMain ==
    \/ MainValidateKey
    \/ MainClone
    \/ MainValidateSource
    \/ MainRmtreeEarly
    \/ MainCleanOutput
    \/ MainCheckFlags
    \/ MainRun
    \/ MainQuestions
    \/ MainFinally
    \/ MainRmtreeFinally

\* The program started one way or the other: one run of the web worker, or one
\* run of main().
InitOnce == InitRun \/ InitMain

NextOnce ==
    \/ cli.pc = "idle" /\ NextRun
    \/ NextMain

SpecOnce == InitOnce /\ [][NextOnce]_vars

(***************************************************************************)
(* Claims about refactor_code and _call_gemini_api                         *)
(***************************************************************************)

\* C1: when refactor_code has made its remote call and the text
\* extract_code_from_markdown produces from the answer is empty or starts with
\* "Error:", refactor_code returns the original content; in particular it does
\* so for every failure string of _call_gemini_api.
C1_FallbackToOriginal ==
    (rpc = "returned" /\ remote_calls = 1) =>
        /\ LET x == extract_code_from_markdown(refactored_content)
           IN  (x = <<>> \/ StartsWith(x, Marker)) => refactor_result = code_content
        /\ refactored_content \in FailureStrings => refactor_result = code_content

\* the extracted text carries the marker (a fenced or indented "Error:") and the
\* non-empty original was returned
C1_Witness ==
    /\ rpc = "returned" /\ remote_calls = 1
    /\ extracted_code # <<>> /\ StartsWith(extracted_code, Marker)
    /\ code_content # <<>> /\ refactor_result = code_content

\* C2: for non-empty content refactor_code returns a non-empty string, whatever
\* the remote answer was.
C2_NeverEmpty ==
    (rpc = "returned" /\ code_content # <<>>) => refactor_result # <<>>

\* an empty fenced block was answered for a non-empty file
C2_Witness ==
    /\ rpc = "returned" /\ remote_calls = 1 /\ code_content # <<>>
    /\ refactored_content = Fence \o <<"\n", "\n">> \o Fence
    /\ extracted_code = <<>> /\ refactor_result = code_content

LastOutcomeSucceeded ==
    outcomes # <<>> /\ outcomes[Len(outcomes)].kind = "success"

\* C3: _call_gemini_api never raises to its caller; it returns a string, which
\* is the text of the successful attempt or else starts with "Error:".
C3_NeverRaises ==
    /\ ipc # "raised"
    /\ ipc = "returned" =>
          /\ call_result # Unassigned
          /\ LastOutcomeSucceeded => call_result = outcomes[Len(outcomes)].text
          /\ ~LastOutcomeSucceeded => StartsWith(call_result, Marker)

\* the last of several attempts found no candidates and the exhaustion string
\* was returned
C3_Witness ==
    /\ ipc = "returned" /\ max_retries >= 2 /\ Len(outcomes) = max_retries
    /\ outcomes[Len(outcomes)].kind = "nocandidates"
    /\ call_result = ExhaustedMsg(max_retries, ErrIndex)

NoAttemptSucceeded == \A i \in 1..Len(outcomes) : outcomes[i].kind # "success"

\* C4: one invocation issues at most max_retries generate_content calls, and
\* when every attempt failed the returned string contains "Error:".
C4_RetryBound ==
    /\ calls <= max_retries
    /\ (ipc = "returned" /\ NoAttemptSucceeded) => Contains(call_result, Marker)

\* all max_retries attempts were made and failed, by a safety block, a rate
\* limit and another error
C4_Witness ==
    /\ ipc = "returned" /\ max_retries = MaxRetries /\ calls = max_retries
    /\ NoAttemptSucceeded
    /\ \E i \in 1..Len(outcomes) : outcomes[i].kind = "safety"
    /\ \E i \in 1..Len(outcomes) : outcomes[i].kind = "raise" /\ IsRateLimit(outcomes[i].text)
    /\ \E i \in 1..Len(outcomes) : outcomes[i].kind = "raise" /\ ~IsRateLimit(outcomes[i].text)

\* C16: a file whose content is longer than MAX_FILE_SIZE_FOR_REFACTORING causes
\* no remote call and the file persisted for it equals the input file; a file
\* whose length equals the ceiling is sent to the remote service.
C16_OversizedPassThrough ==
    /\ (rpc = "persisted" /\ Len(code_content) > MAX_FILE_SIZE_FOR_REFACTORING) =>
           remote_calls = 0 /\ output_file = source_file
    /\ (rpc \in {"called", "extracted", "returned", "persisted", "failed"}
           /\ Len(code_content) = MAX_FILE_SIZE_FOR_REFACTORING) => remote_calls = 1

\* what C16 says of the text: the oversized content goes through refactor_code
\* unchanged and without a remote call
OversizedTextUnchanged ==
    (rpc \in {"returned", "persisted", "failed"}
        /\ Len(code_content) > MAX_FILE_SIZE_FOR_REFACTORING) =>
            remote_calls = 0 /\ refactor_result = code_content

\* C17: of a text with two fenced blocks A then B, in either fence style, with
\* or without language tags and prose, the extractor returns the trimmed
\* interior of A.
C17_FirstFence ==
    (blocks # Nil /\ extractions # <<>>) => extractions[1] = Strip(blocks[1][1])

\* C18: applied to a text without a fence marker, the extractor returns a text
\* that it maps to itself.
C18_Idempotent ==
    (~Contains(response_text, Fence) /\ Len(extractions) = 2) =>
        extractions[2] = extractions[1]

\* a step in which _call_gemini_api makes an attempt, and that attempt
MadeAttempt == Len(outcomes') = Len(outcomes) + 1
ThisAttempt == outcomes'[Len(outcomes')]

\* the attempt ended in the except clause
Raised(o) == o.kind \in {"raise", "nocandidates"}

RateLimited(o) == Raised(o) /\ IsRateLimit(o.text)

\* C11: an attempt that raises an error whose text contains "quota" or "rate",
\* in any case, is followed by exactly one sleep of 60 and by no backoff sleep,
\* whether it is the first, a middle or the last attempt.
C11_RateLimitCooldown ==
    [][(MadeAttempt /\ RateLimited(ThisAttempt)) =>
          sleeps' = Append(sleeps, RateLimitSleep)]_vars

\* every one of MaxRetries attempts was rate limited, the first with "RATE" and
\* the last with "quota", and each was followed by one sleep of 60
C11_Witness ==
    /\ ipc = "returned" /\ max_retries = MaxRetries /\ Len(outcomes) = max_retries
    /\ \A i \in 1..Len(outcomes) : RateLimited(outcomes[i])
    /\ outcomes[1].text = ErrRate /\ outcomes[max_retries].text = ErrQuota
    /\ Len(sleeps) = max_retries
    /\ \A i \in 1..Len(sleeps) : sleeps[i] = RateLimitSleep

C13_EmbedsLastError ==
    (/\ ipc = "returned" /\ max_retries >= 1 /\ Len(outcomes) = max_retries
     /\ Raised(outcomes[Len(outcomes)])) =>
        Contains(call_result, outcomes[Len(outcomes)].text)

\* C14: a safety-blocked response on an attempt before the last leads to the
\* next attempt and returns nothing; on the last attempt the invoker returns
\* the safety string.
C14_SafetyBlock ==
    [][(MadeAttempt /\ ThisAttempt.kind = "safety") =>
          IF Len(outcomes') < max_retries
          THEN ipc' = "loop" /\ attempt' = Len(outcomes') /\ sleeps' = sleeps
          ELSE ipc' = "returned" /\ call_result' = SafetyBlockedMsg]_vars

\* every one of MaxRetries attempts was blocked and the safety string came back
C14_Witness ==
    /\ ipc = "returned" /\ max_retries = MaxRetries /\ Len(outcomes) = max_retries
    /\ \A i \in 1..Len(outcomes) : outcomes[i].kind = "safety"
    /\ call_result = SafetyBlockedMsg

\* C15: a rate-limited attempt uses one slot of the budget and the loop goes
\* on to the next attempt; when every attempt is rate limited exactly
\* max_retries calls are issued.
C15_RateLimitUsesOneSlot ==
    /\ []((ipc = "returned" /\ \A i \in 1..Len(outcomes) : RateLimited(outcomes[i]))
             => calls = max_retries)
    /\ [][(MadeAttempt /\ RateLimited(ThisAttempt)) =>
             /\ calls' = calls + 1
             /\ attempt' = attempt + 1
             /\ ipc' = "loop"]_vars

\* two attempts allowed, both rate limited: two calls, then the loop ran out
C15_Witness ==
    /\ ipc = "returned" /\ max_retries = 2 /\ calls = 2
    /\ \A i \in 1..Len(outcomes) : RateLimited(outcomes[i])
    /\ call_result = UnexpectedMsg

(***************************************************************************)
(* Claims about the web application                                        *)
(***************************************************************************)

\* a worker thread that has been started and has not ended
Alive(t) == threads[t].pc \notin {"unborn", "done"}

\* C5: two run_refactoring_task threads never coexist: a start request that
\* arrives after another was accepted and before that run ended is rejected.
C5_AtMostOneRun ==
    Cardinality({t \in Runs : Alive(t)}) <= 1

\* the handler has read all twelve fields
ResponseBuilt == hpc = Len(ResponseFields) \div GroupSize + 1

\* C6: the field values of one get_status response are the values
\* processing_state held at one single instant of the query.
C6_PointInTime ==
    ResponseBuilt => response \in instants

\* the changes of status that go forward
Forward ==
    {<<"idle", "running">>, <<"running", "completed">>, <<"running", "error">>}

\* C7: within one run the status only moves idle -> running -> completed or
\* error; a terminal status is not changed again and running never goes back
\* to idle.
C7_StatusForward ==
    [][processing_state'.status # processing_state.status =>
          <<processing_state.status, processing_state'.status>> \in Forward]_vars

C7_Witness ==
    /\ threads[MaxStarts].pc = "done"
    /\ threads[MaxStarts].written = <<"running", "completed">>
    /\ processing_state.status = "completed"

\* C8: a run that ends has set the status to completed or error on its way,
\* whichever path it took, and the status is not left at running.
C8_EndsTerminal ==
    \A t \in Runs :
        threads[t].pc = "done" =>
            /\ threads[t].written # <<>>
            /\ threads[t].written[Len(threads[t].written)] \in {"completed", "error"}
            /\ processing_state.status \in {"completed", "error"}

C8_Witness ==
    \E t \in Runs :
        /\ threads[t].pc = "done"
        /\ threads[t].exc # None
        /\ processing_state.status = "error"
        /\ processing_state.error = threads[t].exc

\* run t is between its own resets (web_app.py 77-84) and its end
Running(t) == Alive(t) /\ threads[t].pc \notin BeginPcs

\* C9: while an accepted run has not ended, the three counters never decrease
\* and no entry leaves the log.
C9_Monotonic ==
    [][\A t \in Runs :
          Running(t) =>
              /\ processing_state'.files_processed >= processing_state.files_processed
              /\ processing_state'.files_analyzed >= processing_state.files_analyzed
              /\ processing_state'.files_refactored >= processing_state.files_refactored
              /\ processing_state'.logs[t] >= processing_state.logs[t]]_vars

\* the positions of agent.run inside the try of the per-file loop (agent.py
\* 147-178, with the wrappers of web_app.py 132-151)
FilePcs == {"a148", "w133", "w134", "w135", "w136", "w137", "a157", "w146",
            "w147", "w148", "w149", "a170"}

\* C10: an exception raised while one file is read, analyzed, refactored or
\* persisted stays inside the per-file loop: the only way out of the work on
\* file i is to the loop head with file i + 1 next, and the loop ends only
\* after the last accepted file.
C10_PerFileCaught ==
    /\ [](\A t \in Runs : threads[t].pc = "a183" => threads[t].idx = nfiles + 1)
    /\ [][\A t \in Runs :
             threads[t].pc \in FilePcs =>
                 \/ threads'[t].pc \in FilePcs /\ threads'[t].idx = threads[t].idx
                 \/ threads'[t].pc = "a142" /\ threads'[t].idx = threads[t].idx + 1]_vars

C10_Witness ==
    \E t \in Runs :
        /\ 1 \in threads[t].failed
        /\ threads[t].processed_files = 1
        /\ threads[t].idx = 3
        /\ threads[t].exc = None
        /\ threads[t].pc = "done"

\* run t met no file it could work on: no file reached the analysis and no
\* read failed
ZeroAccepted(t) == threads[t].failed = {} /\ processing_state.current_file = 0

\* run t did not fail for a reason that has nothing to do with the directory
StartedUp(t) ==
    /\ threads[t].exc = None
    /\ processing_state.error \notin {"API key not configured",
                                      "Failed to clone repository"}

NothingProcessed(t) ==
    /\ processing_state.status = "completed"
    /\ processing_state.files_processed = 0
    /\ threads[t].docs = {}
    /\ processing_state.recommendations = Nil
    /\ processing_state.interview_questions = Nil

\* C19 as stated: for every source directory with zero accepted files, a
\* directory without any file included, the run ends with status completed and
\* files_processed = 0 and writes neither document.
C19_EmptyCorpus ==
    \A t \in Runs :
        (threads[t].pc = "done" /\ StartedUp(t) /\ ZeroAccepted(t)) =>
            NothingProcessed(t)

\* C19 amended: that holds for a directory that holds at least one file but no
\* accepted one; for a directory without any file the run ends with status
\* error and the message of the failed validation.
C19_EmptyCorpusAmended ==
    \A t \in Runs :
        (threads[t].pc = "done" /\ StartedUp(t) /\ ZeroAccepted(t)) =>
            IF form.source = "files" THEN NothingProcessed(t)
            ELSE /\ processing_state.status = "error"
                 /\ processing_state.error = "Invalid source directory"
                 /\ processing_state.files_processed = 0
                 /\ threads[t].docs = {}

\* a run over NumFiles blank files ended completed with nothing processed
C19_Witness ==
    \E t \in Runs :
        /\ threads[t].pc = "done" /\ nfiles = NumFiles
        /\ threads[t].idx = nfiles + 1
        /\ StartedUp(t) /\ ZeroAccepted(t)
        /\ NothingProcessed(t)

\* C20: each of the two documents is written only in a run that persisted at
\* least one file and whose analysis phase was not skipped by its flag.
C20_DocumentsOnlyIfProcessed ==
    \A t \in Runs :
        \A d \in threads[t].docs :
            threads[t].processed_files >= 1 /\ ~threads[t].skip_analysis

\* the positions at which a worker thread is inside a call of _call_gemini_api
\* (agent.py 92, 114, 218, 259): the call was issued by the statement before
\* and the thread's next step is its return
RemoteCallPcs == {"w135", "w147", "a196", "a259"}

InRemoteCall(t) ==
    /\ threads[t].pc \in RemoteCallPcs
    /\ threads[t].pc \in {"a196", "a259"} => threads[t].analysis_results # <<>>

\* C21: at most one remote call is in flight at any instant, under every
\* interleaving of start requests and worker threads.
C21_OneCallInFlight ==
    Cardinality({t \in Runs : InRemoteCall(t)}) <= 1

\* C22: a start request with both skip flags set is rejected and starts no
\* run: no worker thread ever runs with skip_analysis and skip_refactoring.
C22_BothSkipRejected ==
    \A t \in Runs :
        (threads[t].skip_analysis /\ threads[t].skip_refactoring) =>
            threads[t].pc = "unborn"

\* the positions of run t right after it assigned processing_state['error']
\* (web_app.py 91, 101, 111, 185) and before it assigns the status
ErrorSetPcs == {"w92", "w102", "w112", "w186"}

\* C23: whenever the status is running, every field of processing_state holds
\* a value of the run in progress: the log and the file descriptors hold no
\* entry of another run, the two documents and the error text are unset or
\* were set by this run, and the counters count files of this run only.
C23_FreshWhenRunning ==
    \A t \in Runs :
        (Alive(t) /\ processing_state.status = "running") =>
            /\ \A r \in Runs \ {t} :
                  /\ processing_state.logs[r] = 0
                  /\ processing_state.processed_files[r] = 0
            /\ processing_state.recommendations \in {Nil, <<t>>}
            /\ processing_state.interview_questions \in {Nil, <<t>>}
            /\ processing_state.error # None => threads[t].pc \in ErrorSetPcs
            /\ processing_state.files_analyzed <= threads[t].idx
            /\ processing_state.files_refactored <= threads[t].idx
            /\ processing_state.files_processed <= threads[t].idx

\* run t ended at web_app.py 179-181
RunCompleted(t) ==
    /\ threads[t].pc = "done"
    /\ threads[t].written = <<"running", "completed">>
    /\ processing_state.status = "completed"

\* the accepted files of run t that were skipped or whose processing raised
\* (a file whose refactor is skipped for size is one whose refactor_code
\* returned: web_app.py 147-149 counts it like any refactored file)
SkippedOrFailed(t) == threads[t].blank \cup threads[t].failed

\* C24: at run completion files_processed equals files_refactored plus the
\* number of accepted files that were skipped or failed.
C24_ProcessedSum ==
    \A t \in Runs :
        RunCompleted(t) =>
            processing_state.files_processed =
                processing_state.files_refactored + Cardinality(SkippedOrFailed(t))

\* run t reached the per-file loop of agent.run (agent.py 138)
LoopBegun(t) == threads[t].idx >= 1

\* C25: a run ends with status error only when it failed to start; once the
\* per-file processing has begun, no failure sets the status to error.
C25_ErrorOnlyAtStart ==
    \A t \in Runs :
        (threads[t].pc = "done" /\ processing_state.status = "error") =>
            ~LoopBegun(t)

\* the work on the file has ended: its output was written, or writing it failed
FileEnded == rpc \in {"persisted", "failed"}

\* C26: for an accepted non-empty file, whatever the analysis call and the
\* refactor call hand back (text or failure string), the run eventually writes
\* the mirrored output file; the work on a file is given up only when the
\* write itself fails, never after a remote call.
C26_EveryOutcomePersists ==
    /\ (rpc = "analyze") ~> FileEnded
    /\ [][rpc' = "failed" => rpc = "returned"]_rpc
    /\ [](rpc = "persisted" => output_file # Nil /\ output_file[1] # <<>>)

\* the refactor call ran out of attempts on rate limits and the original was
\* written
C26_Witness ==
    /\ rpc = "persisted"
    /\ refactored_content = UnexpectedMsg
    /\ output_file = <<Encode(code_content)>>

\* agent.py 155-178: the steps of the per-file body, in program order
FileSteps == <<"analyze", "append", "delay", "refactor", "persist", "delay">>

\* the number of steps taken for the current file when a run is at pc
StepsAt(pc) ==
    CASE pc \in {"a148", "w133", "w134", "w135"} -> 0
      [] pc \in {"w136", "w137", "a157"} -> 1
      [] pc \in {"w146", "w147"} -> 3
      [] pc \in {"w148", "w149", "a170"} -> 4

\* the files before the current one that were neither blank nor given up
Persisted(t) == (1..(threads[t].idx - 1)) \ (threads[t].blank \cup threads[t].failed)

\* C27: for each file the steps are taken in the order analyze, append of the
\* analysis record, delay, refactor, persist, delay: the refactor call is
\* issued only with the analysis returned and its record appended, the file is
\* written only with the refactor call returned, and the next file is taken
\* only when every file before it was persisted, given up or skipped as blank.
C27_StepOrder ==
    \A t \in Runs :
        /\ threads[t].pc \in FilePcs =>
              threads[t].steps = SubSeq(FileSteps, 1, StepsAt(threads[t].pc))
        /\ threads[t].pc = "a142" =>
              \/ threads[t].steps = FileSteps
              \/ threads[t].steps = <<>> /\ threads[t].idx = 1
              \/ (threads[t].idx - 1) \in threads[t].blank \cup threads[t].failed
        /\ threads[t].pc \in FilePcs \cup {"a142"} =>
              threads[t].processed_files = Cardinality(Persisted(t))

\* the second file is being refactored after the first was persisted
C27_Witness ==
    \E t \in Runs :
        /\ threads[t].pc = "w147" /\ threads[t].idx = 2
        /\ threads[t].processed_files = 1
        /\ threads[t].analysis_results = <<1, 2>>

\* C28: a synthesis call is made only after the loop has visited every
\* accepted file and only in a run that processed at least one file; each
\* document is produced by one invocation, the recommendations first.
C28_SynthesisAfterLoop ==
    \A t \in Runs :
        /\ threads[t].synth \in {<<>>, <<"rec">>, <<"rec", "iq">>, <<"iq">>}
        /\ threads[t].synth # <<>> =>
              /\ threads[t].idx = nfiles + 1
              /\ threads[t].processed_files >= 1

\* C29: whatever _call_gemini_api returns when its last attempt did not
\* succeed is one of its failure strings, and extract_code_from_markdown
\* returns the empty string for each of them and for the empty response.
C29_FailureStringsExtractEmpty ==
    /\ (ipc = "returned" /\ ~LastOutcomeSucceeded) => call_result \in FailureStrings
    /\ (rpc = "extracted" /\ refactored_content \in FailureStrings \cup {<<>>}) =>
           extracted_code = <<>>

\* the refactor call gave up after GEMINI_MAX_RETRIES failed attempts and the
\* extractor returned nothing for its string
C29_Witness ==
    /\ rpc = "extracted"
    /\ refactored_content = ExhaustedMsg(GEMINI_MAX_RETRIES, ErrDown)
    /\ extracted_code = <<>>

\* the files of which run t holds an analysis record
Analyzed(t) == {threads[t].analysis_results[i] : i \in 1..Len(threads[t].analysis_results)}

\* the positions of the per-file body after the append of agent.py 157
AppendedPcs == {"w146", "w147", "w148", "w149", "a170"}

\* C30: analysis_results only grows, by one record at its end for the file
\* whose analysis just returned; it holds one record for every file that got
\* past its analysis, in the order the files were visited, and it no longer
\* changes once a synthesis call was made.
C30_AppendOnly ==
    /\ \A t \in Runs :
          LET r == threads[t].analysis_results
          IN  /\ \A i, j \in 1..Len(r) : i < j => r[i] < r[j]
              /\ Analyzed(t) \subseteq (1..nfiles) \ threads[t].blank
              /\ Persisted(t) \subseteq Analyzed(t)
              /\ threads[t].pc \in FilePcs =>
                    (threads[t].idx \in Analyzed(t) <=> threads[t].pc \in AppendedPcs)
    /\ [][\A t \in Runs :
             \/ threads'[t].analysis_results = threads[t].analysis_results
             \/ /\ threads[t].pc = "a157"
                /\ threads[t].synth = <<>>
                /\ threads'[t].analysis_results =
                       Append(threads[t].analysis_results, threads[t].idx)]_vars

\* a run over two files ended with both records, in visit order, read by both
\* synthesis calls
C30_Witness ==
    \E t \in Runs :
        /\ threads[t].pc = "done"
        /\ threads[t].analysis_results = <<1, 2>>
        /\ threads[t].synth = <<"rec", "iq">>

\* C31: whenever the status is error the error field holds a message, and
\* whenever the status is completed the error field is None.
C31_ErrorMatchesStatus ==
    /\ processing_state.status = "error" => processing_state.error # None
    /\ processing_state.status = "completed" => processing_state.error = None

\* the status values that say a run has ended
TerminalStatus == {"completed", "error"}

\* run t has itself assigned a terminal status
EndedItself(t) ==
    \E i \in 1..Len(threads[t].written) : threads[t].written[i] \in TerminalStatus

\* C32: from the acceptance of a start request until the run it starts has
\* itself ended, the status is not a terminal one: the terminal status of the
\* previous run is not reported.
C32_NoStaleTerminalStatus ==
    /\ starter.pc # "idle" => processing_state.status \notin TerminalStatus
    /\ \A t \in Runs :
          (Alive(t) /\ ~EndedItself(t)) =>
              processing_state.status \notin TerminalStatus

\* no worker thread is running and no start request is being handled
Quiet == starter.pc = "idle" /\ \A t \in Runs : threads[t].pc \in {"unborn", "done"}

\* C33: a run clears the active flag however it ends, so the flag does not
\* stay set: once no run is in progress the flag is false and a start request
\* with a source path passes the gate.
C33_GateReopens ==
    /\ [](Quiet => ~processing_state.active)
    /\ processing_state.active ~> ~processing_state.active
    /\ []((Quiet /\ nstarted < MaxStarts) => ENABLED StartAcceptIdle)

\* the first run ended by an exception and the second request was accepted
\* and its thread started
C33_Witness ==
    \E t, u \in Runs :
        /\ threads[t].pc = "done" /\ threads[t].exc # None
        /\ threads[u].pc = "w77"
        /\ ~processing_state.active

\* C34: a start request that is refused (the handler is idle before and after
\* the step, and no worker thread moved) leaves processing_state as it was and
\* starts no thread.
C34_RefusedStartChangesNothing ==
    [][(starter.pc = "idle" /\ starter'.pc = "idle" /\ threads' = threads) =>
           (processing_state' = processing_state /\ nstarted' = nstarted)]_vars

\* a run has ended with files counted and no request is being handled: a
\* request without a source path is refused in this state, which is its own
\* successor
C34_Witness ==
    /\ starter.pc = "idle"
    /\ ~processing_state.active
    /\ processing_state.status = "completed"
    /\ processing_state.files_processed >= 1
    /\ \E t \in Runs : threads[t].pc = "done"

\* C35: when a run has ended completed, the counter files_processed that the
\* status query reports is the number of files the run wrote under the output
\* root (the processed_files of agent.run).
C35_ProcessedEqualsPersisted ==
    \A t \in Runs :
        RunCompleted(t) =>
            processing_state.files_processed = threads[t].processed_files

\* the positions of main() at a shutil.rmtree(temp_dir)
MainRmtreePcs == {"m91", "m102", "m155"}

SleptBefore(i) == {j \in 1..(i - 1) : outcomes[j].kind # "safety"}

\* C37: the first attempt of _call_gemini_api that succeeds without a safety
\* block is its last: the call has returned the text of that attempt, the
\* number of underlying calls made is the index of that attempt, and the only
\* sleeps are those between the failed attempts before it.
C37_FirstSuccessReturns ==
    \A i \in 1..Len(outcomes) :
        outcomes[i].kind = "success" =>
            /\ i = Len(outcomes)
            /\ ipc = "returned"
            /\ call_result = outcomes[i].text
            /\ calls = i
            /\ Len(sleeps) = Cardinality(SleptBefore(i))

\* the second attempt succeeded after a first one that raised and slept
C37_Witness ==
    /\ Len(outcomes) = 2
    /\ outcomes[1].kind = "raise" /\ outcomes[2].kind = "success"
    /\ outcomes[2].text # <<>>
    /\ Len(sleeps) = 1 /\ ipc = "returned"

\* the file run() has met reads as nothing but whitespace
BlankFile ==
    /\ source_file # Nil
    /\ \A i \in 1..Len(Decode(source_file[1])) : IsSpace(Decode(source_file[1])[i])

\* C38: a file whose content is empty or only whitespace is skipped by run():
\* its work never gets past the reading (no analysis call, so no analysis
\* record; no refactor call; no write, so it is not counted), no underlying
\* call is made for it and no output file exists; and only such a file is
\* skipped.
C38_BlankFileSkipped ==
    /\ BlankFile =>
          /\ rpc \in {"open", "skipped"}
          /\ ipc = "idle" /\ calls = 0 /\ outcomes = <<>>
          /\ remote_calls = 0
          /\ output_file = Nil
    /\ rpc = "skipped" => BlankFile

\* a file of one line ending only was skipped
C38_Witness ==
    /\ rpc = "skipped"
    /\ source_file = <<(<<"\r", "\n">>)>>
    /\ output_file = Nil

====
